---- MODULE Spec2Model ----
(***************************************************************************)
(* Model of app/main.py: the request/response wire codec, the Route        *)
(* matcher and the ServerSocket accept loop with its per-connection        *)
(* handler.  Python str values are TLA+ strings; a dict is the sequence    *)
(* of its items in insertion order.                                        *)
(***************************************************************************)
EXTENDS Integers, Sequences, FiniteSets, TLC

VARIABLES router, server, conn, resp, encoded, calls, req, wire, decoded

vars == <<router, server, conn, resp, encoded, calls, req, wire, decoded>>

serverVars == <<router, server, conn>>
responseVars == <<resp, encoded, calls>>
requestVars == <<req, wire, decoded>>

(***************************************************************************)
(* Module constants                                                        *)
(***************************************************************************)
CRLF_DELIMITER == "\r\n"

HTTP_VERSION == "HTTP/1.1"

\* the Python value None (also printed by an f-string as "None")
None == "None"

(***************************************************************************)
(* str methods                                                             *)
(***************************************************************************)
\* s[i], "" outside the string
CharAt(s, i) == IF 1 <= i /\ i <= Len(s) THEN SubSeq(s, i, i) ELSE ""

\* str.find, 1-based: the first index >= i where sep occurs in s, 0 if none
Find(s, sep, i) ==
    LET hits == {k \in i..(Len(s) - Len(sep) + 1) : SubSeq(s, k, k + Len(sep) - 1) = sep}
    IN IF hits = {} THEN 0 ELSE CHOOSE k \in hits : \A h \in hits : k <= h

\* str.split(sep, maxsplit): n < 0 is "no limit"
RECURSIVE SplitMax(_, _, _)
SplitMax(s, sep, n) ==
    LET k == Find(s, sep, 1) IN
    IF n = 0 \/ k = 0 THEN <<s>>
    ELSE <<SubSeq(s, 1, k - 1)>>
         \o SplitMax(SubSeq(s, k + Len(sep), Len(s)), sep, n - 1)

Split(s, sep) == SplitMax(s, sep, -1)

\* sep.join(parts)
RECURSIVE Join(_, _)
Join(parts, sep) ==
    IF Len(parts) = 0 THEN ""
    ELSE IF Len(parts) = 1 THEN parts[1]
    ELSE parts[1] \o sep \o Join(Tail(parts), sep)

UpperLetters == "ABCDEFGHIJKLMNOPQRSTUVWXYZ"

LowerLetters == "abcdefghijklmnopqrstuvwxyz"

Digits == "0123456789"

LowerChar(c) ==
    LET k == Find(UpperLetters, c, 1) IN
    IF k = 0 THEN c ELSE CharAt(LowerLetters, k)

UpperChar(c) ==
    LET k == Find(LowerLetters, c, 1) IN
    IF k = 0 THEN c ELSE CharAt(UpperLetters, k)

\* str.lower
RECURSIVE Lower(_)
Lower(s) == IF Len(s) = 0 THEN "" ELSE LowerChar(Head(s)) \o Lower(Tail(s))

\* str.upper
RECURSIVE Upper(_)
Upper(s) == IF Len(s) = 0 THEN "" ELSE UpperChar(Head(s)) \o Upper(Tail(s))

(***************************************************************************)
(* dict: the sequence of items [key, value] in insertion order             *)
(***************************************************************************)
DictKeys(d) == {d[i].key : i \in 1..Len(d)}

DictHas(d, k) == k \in DictKeys(d)

\* d[k] for a key that is present
DictGet(d, k) == d[CHOOSE i \in 1..Len(d) : d[i].key = k].value

\* d[k] = v: an existing key keeps its position
DictSet(d, k, v) ==
    IF DictHas(d, k)
    THEN [i \in 1..Len(d) |-> IF d[i].key = k THEN [key |-> k, value |-> v] ELSE d[i]]
    ELSE Append(d, [key |-> k, value |-> v])

\* dict equality does not depend on the insertion order
DictEq(d, e) ==
    /\ DictKeys(d) = DictKeys(e)
    /\ \A k \in DictKeys(d) : DictGet(d, k) = DictGet(e, k)

(***************************************************************************)
(* RequestContent                                                          *)
(***************************************************************************)
RequestContent(method, path, http_version, headers, body) ==
    [method |-> method, path |-> path, http_version |-> http_version,
     headers |-> headers, body |-> body, server_directory |-> None]

\* headers_pair that looks the key up as it is given
headers_pair_exact(request, key) ==
    IF DictHas(request.headers, key)
    THEN DictGet(request.headers, key)
    ELSE <<>>

headers_pair(request, key) ==
    IF DictHas(request.headers, Lower(key))
    THEN DictGet(request.headers, Lower(key))
    ELSE <<>>

header(request, key) == Join(headers_pair(request, key), ", ")

HeaderLines(headers) ==
    [i \in 1..Len(headers) |-> headers[i].key \o ": " \o Join(headers[i].value, ", ")]

to_encoded_request(request) ==
    LET headers_line == request.method \o " " \o request.path \o " " \o request.http_version
        general_headers == Join(HeaderLines(request.headers), CRLF_DELIMITER)
    IN headers_line \o CRLF_DELIMITER \o general_headers \o CRLF_DELIMITER \o request.body

(***************************************************************************)
(* RequestParser.parse: [ok |-> TRUE, request |-> r] or the raised         *)
(* exception [ok |-> FALSE, exc |-> "ValueError"]                          *)
(***************************************************************************)
Raised(exc) == [ok |-> FALSE, exc |-> exc]

\* the for loop over the header lines where a name seen again adds its values
\* to the entry
RECURSIVE ParseHeadersFold(_, _, _)
ParseHeadersFold(lines, i, headers_dict) ==
    IF i > Len(lines) THEN [ok |-> TRUE, headers |-> headers_dict]
    ELSE LET kv == SplitMax(lines[i], ": ", 2) IN
         IF Len(kv) # 2 THEN [ok |-> FALSE, headers |-> headers_dict]
         ELSE LET key == Lower(kv[1])
                  old == IF DictHas(headers_dict, key) THEN DictGet(headers_dict, key)
                         ELSE <<>>
              IN ParseHeadersFold(lines, i + 1,
                                  DictSet(headers_dict, key, old \o Split(kv[2], ", ")))

\* the for loop over the header lines, from line i on; FALSE when the
\* unpacking of a line into key, value fails
RECURSIVE ParseHeaders(_, _, _)
ParseHeaders(lines, i, headers_dict) ==
    IF i > Len(lines) THEN [ok |-> TRUE, headers |-> headers_dict]
    ELSE LET kv == SplitMax(lines[i], ": ", 2) IN
         IF Len(kv) # 2 THEN [ok |-> FALSE, headers |-> headers_dict]
         ELSE ParseHeaders(lines, i + 1,
                           DictSet(headers_dict, Lower(kv[1]), Split(kv[2], ", ")))

parse(body) ==
    LET parts == Split(body, CRLF_DELIMITER \o CRLF_DELIMITER) IN
    IF Len(parts) # 2 THEN Raised("ValueError")
    ELSE LET lines == Split(parts[1], CRLF_DELIMITER)
             request_line == Split(lines[1], " ")
         IN IF Len(request_line) # 3 THEN Raised("ValueError")
            ELSE LET hs == ParseHeaders(Tail(lines), 1, <<>>) IN
                 IF ~hs.ok THEN Raised("ValueError")
                 ELSE [ok |-> TRUE,
                       request |-> RequestContent(request_line[1], request_line[2],
                                                  request_line[3], hs.headers, parts[2])]

(***************************************************************************)
(* ResponseContent                                                         *)
(***************************************************************************)
ResponseContent ==
    [headers |-> <<>>, body |-> "", status_code |-> 200, reason_phrase |-> "OK"]

\* set_header_pair that adds the values to those the header has
add_header_pair(response, key, values) ==
    [response EXCEPT !.headers =
        DictSet(@, key, (IF DictHas(@, key) THEN DictGet(@, key) ELSE <<>>) \o values)]

set_header_pair(response, key, values) ==
    [response EXCEPT !.headers = DictSet(@, key, values)]

set_header(response, key, value) == set_header_pair(response, key, <<value>>)

set_content_type(response, content_type) ==
    set_header(response, "Content-Type", content_type)

set_status_code(response, status_code, reason_phrase) ==
    [response EXCEPT !.status_code = status_code, !.reason_phrase = reason_phrase]

set_body(response, body) == [response EXCEPT !.body = body]

not_found == set_body(set_status_code(ResponseContent, 404, "Not Found"), "Not Found")

method_not_allowed ==
    set_body(set_status_code(ResponseContent, 405, "Method Not Allowed"),
             "Method Not Allowed")

\* to_encoded_response that sets Content-Type without looking for one
FinalizedAlwaysPlain(response) ==
    LET typed == set_content_type(response, "text/plain")
    IN set_header(typed, "Content-Length", ToString(Len(typed.body)))

\* to_encoded_response that sets Content-Length as it sets Content-Type:
\* only when the caller has set none
FinalizedKeepLength(response) ==
    LET typed == IF ~DictHas(response.headers, "Content-Type")
                 THEN set_content_type(response, "text/plain")
                 ELSE response
    IN IF ~DictHas(typed.headers, "Content-Length")
       THEN set_header(typed, "Content-Length", ToString(Len(typed.body)))
       ELSE typed

\* the first two statements of to_encoded_response: the object after the call
Finalized(response) ==
    LET typed == IF ~DictHas(response.headers, "Content-Type")
                 THEN set_content_type(response, "text/plain")
                 ELSE response
    IN set_header(typed, "Content-Length", ToString(Len(typed.body)))

\* to_encoded_response that ends the body with a CRLF
to_encoded_response_trailing(response) ==
    LET self == Finalized(response)
        status_line == HTTP_VERSION \o " " \o ToString(self.status_code)
                       \o " " \o self.reason_phrase
        general_headers == Join(HeaderLines(self.headers), CRLF_DELIMITER)
    IN status_line \o CRLF_DELIMITER \o general_headers
       \o CRLF_DELIMITER \o CRLF_DELIMITER \o self.body \o CRLF_DELIMITER

\* the str that to_encoded_response returns
to_encoded_response(response) ==
    LET self == Finalized(response)
        status_line == HTTP_VERSION \o " " \o ToString(self.status_code)
                       \o " " \o self.reason_phrase
        general_headers == Join(HeaderLines(self.headers), CRLF_DELIMITER)
    IN status_line \o CRLF_DELIMITER \o general_headers
       \o CRLF_DELIMITER \o CRLF_DELIMITER \o self.body

(***************************************************************************)
(* Route: the compiled pattern is a sequence of regex items                *)
(***************************************************************************)
Bol == [kind |-> "bol", ch |-> ""]

Eol == [kind |-> "eol", ch |-> ""]

Lit(c) == [kind |-> "lit", ch |-> c]

\* the end of the string and nothing else (\Z)
End == [kind |-> "end", ch |-> ""]

\* the group ([^/]+)
Seg == [kind |-> "seg", ch |-> ""]

\* \w
IsWord(c) ==
    Len(c) = 1 /\ Find(UpperLetters \o LowerLetters \o Digits \o "_", c, 1) # 0

\* the length of the longest run of characters from s[i] on that satisfy \w
RECURSIVE WordRun(_, _)
WordRun(s, i) ==
    IF i <= Len(s) /\ IsWord(CharAt(s, i)) THEN 1 + WordRun(s, i + 1) ELSE 0

\* re.sub(r"{(\w+)}", r"([^/]+)", path), read from position i on
RECURSIVE SubPlaceholders(_, _)
SubPlaceholders(path, i) ==
    IF i > Len(path) THEN <<>>
    ELSE LET n == WordRun(path, i + 1) IN
         IF CharAt(path, i) = "{" /\ n >= 1 /\ CharAt(path, i + n + 1) = "}"
         THEN <<Seg>> \o SubPlaceholders(path, i + n + 2)
         ELSE <<Lit(CharAt(path, i))>> \o SubPlaceholders(path, i + 1)

build_pattern(path) ==
    IF path = "/" THEN <<Bol, Lit("/"), Eol>> ELSE SubPlaceholders(path, 1)

\* the length of the longest run of characters from s[j] on other than "/"
RECURSIVE SegRun(_, _)
SegRun(s, j) ==
    IF j <= Len(s) /\ CharAt(s, j) # "/" THEN 1 + SegRun(s, j + 1) ELSE 0

NoMatch == [ok |-> FALSE, groups |-> <<>>]

Max(S) == CHOOSE n \in S : \A m \in S : m <= n

\* the backtracking matcher: items pattern[i..] against s[j..]; a group is
\* greedy, "$" holds at the end and before a final newline
RECURSIVE MatchAt(_, _, _, _)
MatchAt(pattern, i, s, j) ==
    IF i > Len(pattern) THEN [ok |-> TRUE, groups |-> <<>>]
    ELSE LET item == pattern[i] IN
         CASE item.kind = "bol" ->
                IF j = 1 THEN MatchAt(pattern, i + 1, s, j) ELSE NoMatch
           [] item.kind = "eol" ->
                IF j = Len(s) + 1 \/ (j = Len(s) /\ CharAt(s, j) = "\n")
                THEN MatchAt(pattern, i + 1, s, j) ELSE NoMatch
           [] item.kind = "end" ->
                IF j = Len(s) + 1 THEN MatchAt(pattern, i + 1, s, j) ELSE NoMatch
           [] item.kind = "lit" ->
                IF j <= Len(s) /\ CharAt(s, j) = item.ch
                THEN MatchAt(pattern, i + 1, s, j + 1) ELSE NoMatch
           [] item.kind = "seg" ->
                LET fits == {n \in 1..SegRun(s, j) : MatchAt(pattern, i + 1, s, j + n).ok}
                IN IF fits = {} THEN NoMatch
                   ELSE LET n == Max(fits)
                            rest == MatchAt(pattern, i + 1, s, j + n)
                        IN [ok |-> TRUE,
                            groups |-> <<SubSeq(s, j, j + n - 1)>> \o rest.groups]

\* re.match(pattern, path): the match starts at the first character and may
\* end anywhere
re_match(pattern, path) == MatchAt(pattern, 1, path, 1)

\* Route.__init__
Route(path, callback) ==
    [path |-> path, callback |-> callback, pattern |-> build_pattern(path), args |-> <<>>]

(***************************************************************************)
(* The handlers bound in main().  A call returns [ok |-> TRUE, response]   *)
(* or the exception it raises.                                             *)
(***************************************************************************)
Returned(response) == [ok |-> TRUE, response |-> response]

\* what exists below the served directory: a file with its content, and a
\* directory
Files ==
    [p \in {"/tmp/f", "/tmp/d"} |->
        IF p = "/tmp/d" THEN [dir |-> TRUE, content |-> ""]
        ELSE [dir |-> FALSE, content |-> "data"]]

index_route(request, args) == Returned(ResponseContent)

echo_route(request, args) ==
    IF Len(args) = 0 THEN Raised("IndexError")
    ELSE Returned(set_body(ResponseContent, args[1]))

user_agent_route(request, args) ==
    Returned(set_body(ResponseContent, header(request, "UsEr-aGeNT")))

file_route(request, args) ==
    IF Len(args) = 0 THEN Raised("IndexError")
    ELSE LET file_path == request.server_directory \o "/" \o args[1] IN
         IF file_path \notin DOMAIN Files THEN Returned(not_found)
         ELSE IF Files[file_path].dir THEN Raised("IsADirectoryError")
         ELSE Returned(set_body(set_content_type(ResponseContent,
                                                 "application/octet-stream"),
                                Files[file_path].content))

\* route.callback(request, *route.args)
Call(callback, request, args) ==
    CASE callback = "index_route" -> index_route(request, args)
      [] callback = "echo_route" -> echo_route(request, args)
      [] callback = "user_agent_route" -> user_agent_route(request, args)
      [] callback = "file_route" -> file_route(request, args)

(***************************************************************************)
(* ServerSocket                                                            *)
(***************************************************************************)
\* a router that has a key for PATCH as well
EmptyRouterWithPatch == [m \in {"GET", "POST", "PUT", "DELETE", "PATCH"} |-> <<>>]

\* self.router as __init__ leaves it
EmptyRouter == [m \in {"GET", "POST", "PUT", "DELETE"} |-> <<>>]

on(r, method, path, callback) ==
    [r EXCEPT ![Upper(method)] = Append(@, Route(path, callback))]

\* the table main() registers
MainRouter ==
    on(on(on(on(EmptyRouter, "GET", "/echo/{str}", "echo_route"),
             "GET", "/user-agent", "user_agent_route"),
          "GET", "/files/{filename}", "file_route"),
       "GET", "/", "index_route")

\* a table whose patterns overlap: on() takes any pattern
OverlapRouter ==
    on(on(on(EmptyRouter, "get", "/echo/{x}", "echo_route"),
          "GET", "/", "index_route"),
       "GET", "/{a}/{b}", "echo_route")

Routers == {MainRouter, OverlapRouter}

\* the --directory argument
Directory == "/tmp"

(***************************************************************************)
(* Bounds and inputs                                                       *)
(***************************************************************************)
\* clients that connect to the listening socket
MaxConns == 2

\* non-empty reads on one connection; afterwards the peer closes
MaxReads == 2

Conns == 1..MaxConns

\* what a client sends in one read
Inputs ==
    { "GET / HTTP/1.1\r\n\r\n",
      "GET /echo/hi HTTP/1.1\r\nHost: x\r\n\r\n",
      "GET /echo/yo HTTP/1.1\r\n\r\n",
      "GET /echo/abc/def HTTP/1.1\r\n\r\n",
      "GET /user-agent HTTP/1.1\r\nUser-Agent: foo/1.0\r\n\r\n",
      "GET /user-agentX HTTP/1.1\r\n\r\n",
      "GET /files/f HTTP/1.1\r\n\r\n",
      "GET /files/g HTTP/1.1\r\n\r\n",
      "GET /files/d HTTP/1.1\r\n\r\n",
      "GET /echo/0123456789 HTTP/1.1\r\n\r\n",
      "GET /nope HTTP/1.1\r\n\r\n",
      "GET /ab/cd HTTP/1.1\r\n\r\n",
      "DELETE / HTTP/1.1\r\n\r\n",
      "PATCH / HTTP/1.1\r\n\r\n",
      "GET /\r\n\r\n" }

(***************************************************************************)
(* State                                                                   *)
(*   router  self.router: method -> list of Route                          *)
(*   server  the thread of run(): pc "accept" (blocked in accept()),       *)
(*           "run" (inside thread.run() of client) or "crashed" (left by   *)
(*           the exception exc)                                            *)
(*   conn    per client socket: pc, the position of handle_connection;     *)
(*           its locals data, request, idx (the route of the for loop),    *)
(*           args (the arguments given to the callback), response; out,    *)
(*           the bytes sent in this turn of the while loop; last_io, the   *)
(*           last operation on the socket (kept when the socket is         *)
(*           closed); reads, the non-empty reads                           *)
(*   resp, encoded   a ResponseContent under construction, its encoding    *)
(*   calls   the calls of to_encoded_response since the last other call    *)
(*   req, wire, decoded   a RequestContent, its encoding, the parse of it  *)
(***************************************************************************)
NoRequest == RequestContent("", "", "", <<>>, "")

NewConn ==
    [pc |-> "none", data |-> "", request |-> NoRequest, idx |-> 0, args |-> <<>>,
     response |-> ResponseContent, out |-> "", last_io |-> "", reads |-> 0]

InitServer ==
    /\ router \in Routers
    /\ server = [pc |-> "accept", client |-> 0, exc |-> "", directory |-> Directory]
    /\ conn = [c \in Conns |-> NewConn]

InitResponse ==
    /\ resp = ResponseContent
    /\ encoded = ""
    /\ calls = 0

InitRequest ==
    /\ req = NoRequest
    /\ wire = ""
    /\ decoded = Raised("")

Init == InitServer /\ InitResponse /\ InitRequest

Alive == server.pc # "crashed"

\* a client connects: the connection waits in the listen queue
Connect(c) ==
    /\ Alive
    /\ conn[c].pc = "none"
    /\ conn' = [conn EXCEPT ![c].pc = "backlog"]
    /\ UNCHANGED <<router, server, responseVars, requestVars>>

\* Thread(target=self.handle_connection, args=(client,)).start(): the
\* handler runs in a thread of its own and run() goes on
thread_start(srv, c) == [srv EXCEPT !.client = c]

\* Thread(target=self.handle_connection, args=(client,)).run(): the handler
\* runs in the caller, run() goes on when it has returned
thread_run(srv, c) == [srv EXCEPT !.pc = "run", !.client = c]

\* run(): client, _ = self.socket.accept(); thread.run() is entered
Accept(c) ==
    /\ server.pc = "accept"
    /\ conn[c].pc = "backlog"
    /\ conn' = [conn EXCEPT ![c].pc = "recv"]
    /\ server' = thread_run(server, c)
    /\ UNCHANGED <<router, responseVars, requestVars>>

\* what the peer may deliver to the next recv: b"" is the peer's close
Deliverable(c) == (IF conn[c].reads < MaxReads THEN Inputs ELSE {}) \cup {""}

\* while ((data := client.recv(2048)) != b'')
Recv(c) ==
    /\ Alive
    /\ conn[c].pc = "recv"
    /\ \E data \in Deliverable(c) :
         conn' = [conn EXCEPT ![c] =
                    IF data = ""
                    THEN [@ EXCEPT !.pc = "returned", !.last_io = "recv_eof"]
                    ELSE [NewConn EXCEPT !.pc = "parse", !.data = data,
                                         !.last_io = "recv", !.reads = conn[c].reads + 1]]
    /\ UNCHANGED <<router, server, responseVars, requestVars>>

\* an exception leaves handle_connection, thread.run() and run()
Crash(srv, exc) == [srv EXCEPT !.pc = "crashed", !.exc = exc]

\* request = RequestParser(data.decode()).parse()
Parse(c) ==
    /\ Alive
    /\ conn[c].pc = "parse"
    /\ LET r == parse(conn[c].data) IN
         IF r.ok
         THEN /\ conn' = [conn EXCEPT ![c].pc = "gate", ![c].request = r.request]
              /\ UNCHANGED server
         ELSE /\ conn' = [conn EXCEPT ![c].pc = "raised"]
              /\ server' = Crash(server, r.exc)
    /\ UNCHANGED <<router, responseVars, requestVars>>

\* a for loop over the list begins at its last item
for_start_last(routes) == Len(routes)

\* "for route in routes" begins at the first item of the list
for_start(routes) == 1

\* if request.method not in self.router: send the 405 and break
CheckMethod(c) ==
    /\ Alive
    /\ conn[c].pc = "gate"
    /\ conn' = [conn EXCEPT ![c] =
                  IF conn[c].request.method \notin DOMAIN router
                  THEN [@ EXCEPT !.out = to_encoded_response(method_not_allowed),
                                 !.last_io = "send_method_not_allowed",
                                 !.pc = "returned"]
                  ELSE [@ EXCEPT !.pc = "scan",
                                 !.idx = for_start(router[conn[c].request.method])]]
    /\ UNCHANGED <<router, server, responseVars, requestVars>>

\* Route.match: whether the path matches, and the Route after the call
match(route, path) ==
    LET m == re_match(route.pattern, path) IN
    IF m.ok THEN [ok |-> TRUE, route |-> [route EXCEPT !.args = m.groups]]
    ELSE [ok |-> FALSE, route |-> route]

\* one turn of "for route in routes: if route.match(request.path)", and the
\* else branch of the for: send the 404
TryRoute(c) ==
    /\ Alive
    /\ conn[c].pc = "scan"
    /\ LET method == conn[c].request.method
           routes == router[method]
           i == conn[c].idx
       IN IF i > Len(routes)
          THEN /\ conn' = [conn EXCEPT ![c].out = to_encoded_response(not_found),
                                       ![c].last_io = "send_not_found",
                                       ![c].pc = "recv"]
               /\ UNCHANGED router
          ELSE LET m == match(routes[i], conn[c].request.path) IN
               /\ router' = [router EXCEPT ![method][i] = m.route]
               /\ conn' = [conn EXCEPT ![c].pc = IF m.ok THEN "call" ELSE "scan",
                                       ![c].idx = IF m.ok THEN i ELSE i + 1]
    /\ UNCHANGED <<server, responseVars, requestVars>>

\* request.server_directory = self.directory
\* response = route.callback(request, *route.args)
Invoke(c) ==
    /\ Alive
    /\ conn[c].pc = "call"
    /\ LET route == router[conn[c].request.method][conn[c].idx]
           request == [conn[c].request EXCEPT !.server_directory = server.directory]
           r == Call(route.callback, request, route.args)
       IN IF r.ok
          THEN /\ conn' = [conn EXCEPT ![c].pc = "send", ![c].request = request,
                                       ![c].args = route.args,
                                       ![c].response = r.response]
               /\ UNCHANGED server
          ELSE /\ conn' = [conn EXCEPT ![c].pc = "raised", ![c].request = request,
                                       ![c].args = route.args]
               /\ server' = Crash(server, r.exc)
    /\ UNCHANGED <<router, responseVars, requestVars>>

\* client.send(bytes(response)); break leaves the for loop
Send(c) ==
    /\ Alive
    /\ conn[c].pc = "send"
    /\ conn' = [conn EXCEPT ![c].out = to_encoded_response(conn[c].response),
                            ![c].response = Finalized(conn[c].response),
                            ![c].last_io = "send_response",
                            ![c].pc = "recv"]
    /\ UNCHANGED <<router, server, responseVars, requestVars>>

\* run(): thread.run() has returned; client.close()
Close(c) ==
    /\ server.pc = "run"
    /\ server.client = c
    /\ conn[c].pc = "returned"
    /\ conn' = [conn EXCEPT ![c] = [NewConn EXCEPT !.pc = "closed",
                                                   !.last_io = conn[c].last_io]]
    /\ server' = [server EXCEPT !.pc = "accept", !.client = 0]
    /\ UNCHANGED <<router, responseVars, requestVars>>

Next ==
    \E c \in Conns :
        \/ Connect(c)
        \/ Accept(c)
        \/ Recv(c)
        \/ Parse(c)
        \/ CheckMethod(c)
        \/ TryRoute(c)
        \/ Invoke(c)
        \/ Send(c)
        \/ Close(c)

Spec == Init /\ [][Next]_vars

(***************************************************************************)
(* The ResponseContent builder on its own: any caller, any order of calls  *)
(***************************************************************************)
\* calls of to_encoded_response in a row on one object
MaxEncodes == 2

HeaderNames == {"Content-Type", "Content-Length", "X-Served-By"}

HeaderValues == {"text/html", "99"}

Bodies == {"", "abc", "0123456789ab"}

Statuses == {<<200, "OK">>, <<201, "Created">>}

New ==
    /\ resp' = ResponseContent
    /\ encoded' = ""
    /\ calls' = 0
    /\ UNCHANGED <<serverVars, requestVars>>

NotFound ==
    /\ resp' = not_found
    /\ encoded' = ""
    /\ calls' = 0
    /\ UNCHANGED <<serverVars, requestVars>>

MethodNotAllowed ==
    /\ resp' = method_not_allowed
    /\ encoded' = ""
    /\ calls' = 0
    /\ UNCHANGED <<serverVars, requestVars>>

SetHeader ==
    /\ \E key \in HeaderNames, value \in HeaderValues :
         resp' = set_header(resp, key, value)
    /\ encoded' = ""
    /\ calls' = 0
    /\ UNCHANGED <<serverVars, requestVars>>

SetStatusCode ==
    /\ \E st \in Statuses : resp' = set_status_code(resp, st[1], st[2])
    /\ encoded' = ""
    /\ calls' = 0
    /\ UNCHANGED <<serverVars, requestVars>>

SetBody ==
    /\ \E body \in Bodies : resp' = set_body(resp, body)
    /\ encoded' = ""
    /\ calls' = 0
    /\ UNCHANGED <<serverVars, requestVars>>

\* encoded is what the call returns; the call changes the object too
Encode ==
    /\ calls < MaxEncodes
    /\ encoded' = to_encoded_response(resp)
    /\ resp' = Finalized(resp)
    /\ calls' = calls + 1
    /\ UNCHANGED <<serverVars, requestVars>>

\* no client connects while the codec specifications run
InitIdle ==
    /\ router = MainRouter
    /\ server = [pc |-> "accept", client |-> 0, exc |-> "", directory |-> Directory]
    /\ conn = [c \in Conns |-> NewConn]

NextResponse ==
    \/ New
    \/ NotFound
    \/ MethodNotAllowed
    \/ SetHeader
    \/ SetStatusCode
    \/ SetBody
    \/ Encode

InitBuilder == InitIdle /\ InitResponse /\ InitRequest

SpecResponse == InitBuilder /\ [][NextResponse]_vars

(***************************************************************************)
(* The request codec on its own: a RequestContent is encoded and the       *)
(* encoding is parsed                                                      *)
(***************************************************************************)
RequestHeaders ==
    { <<>>,
      <<[key |-> "host", value |-> <<"x">>]>>,
      <<[key |-> "accept", value |-> <<"a", "b">>]>>,
      <<[key |-> "host", value |-> <<"x">>], [key |-> "accept", value |-> <<"a", "b">>]>> }

Requests ==
    { RequestContent(method, path, HTTP_VERSION, headers, body) :
        method \in {"GET", "POST"}, path \in {"/", "/echo/hi", "/files/f"},
        headers \in RequestHeaders, body \in {"", "hello", "a\r\nb"} }

EncodeRequest ==
    /\ wire = ""
    /\ wire' = to_encoded_request(req)
    /\ UNCHANGED <<serverVars, responseVars, req, decoded>>

ParseWire ==
    /\ wire # ""
    /\ decoded = Raised("")
    /\ decoded' = parse(wire)
    /\ UNCHANGED <<serverVars, responseVars, req, wire>>

NextRequest == EncodeRequest \/ ParseWire

InitCodec ==
    /\ InitIdle
    /\ InitResponse
    /\ req \in Requests
    /\ wire = ""
    /\ decoded = Raised("")

SpecRequest == InitCodec /\ [][NextRequest]_vars

(***************************************************************************)
(* The parser on its own: text as it arrives from a client is parsed       *)
(***************************************************************************)
RequestLines ==
    { "GET / HTTP/1.1", "POST /x HTTP/1.1", "GET /", "GET  / HTTP/1.1" }

HeaderBlocks ==
    { <<>>,
      <<"User-Agent: foo/1.0">>,
      <<"Accept: a, b">>,
      <<"Accept: a, b", "ACCEPT: c">>,
      <<"Host: x", "host: y, z">>,
      <<"X: a: b">>,
      <<"Host">> }

\* what follows the header lines: the blank line and a body, or one CRLF
Tails ==
    { CRLF_DELIMITER \o CRLF_DELIMITER,
      CRLF_DELIMITER \o CRLF_DELIMITER \o "hello",
      CRLF_DELIMITER \o CRLF_DELIMITER \o "a" \o CRLF_DELIMITER \o CRLF_DELIMITER \o "b",
      CRLF_DELIMITER }

RawInputs ==
    { Join(<<line>> \o block, CRLF_DELIMITER) \o tail :
        line \in RequestLines, block \in HeaderBlocks, tail \in Tails }

NextParse == ParseWire

InitParse ==
    /\ InitIdle
    /\ InitResponse
    /\ req = NoRequest
    /\ wire \in RawInputs
    /\ decoded = Raised("")

SpecParse == InitParse /\ [][NextParse]_vars

(***************************************************************************)
(* Properties                                                              *)
(***************************************************************************)
\* the connection is accepted and not closed: Reading, Dispatching, Writing
Open(c) == conn[c].pc \in {"recv", "parse", "gate", "scan", "call", "send"}

\* the Route the for loop of connection c stands at
RouteOf(c) == router[conn[c].request.method][conn[c].idx]

\* the groups of the request's own path under the pattern of its route
OwnGroups(c) == re_match(RouteOf(c).pattern, conn[c].request.path).groups

\* the last read of c did not decode and parse() has been called on it
DecodeFailed(c) ==
    /\ conn[c].last_io = "recv"
    /\ conn[c].pc # "parse"
    /\ ~parse(conn[c].data).ok

\* C1: between the match of a request's path and the call of its handler
\* the Route holds the groups captured from that request's own path, and
\* the handler is called with exactly those groups, whatever the other
\* connections do in between.
C1_HandlerGetsOwnCaptures ==
    \A c \in Conns :
        /\ conn[c].pc = "call" => RouteOf(c).args = OwnGroups(c)
        /\ conn[c].pc = "send" => conn[c].args = OwnGroups(c)

\* a handler has been called with the value captured from its own request,
\* on a connection accepted after another connection was closed
C1_Witness ==
    \E c, d \in Conns :
        /\ c # d
        /\ conn[c].pc = "send"
        /\ conn[c].reads = 1
        /\ conn[c].args = <<"yo">>
        /\ conn[d].pc = "closed"
        /\ conn[d].last_io = "recv_eof"

\* C2: the accept loop never waits for an accepted connection: while a
\* connection is open, a connection waiting in the listen queue can be
\* accepted.
C2_AcceptNeverWaits ==
    \A c, d \in Conns :
        (Open(c) /\ conn[d].pc = "backlog") => ENABLED Accept(d)

\* C3: after a read that does not decode, no response is written to the
\* connection and the connection is closed by client.close() (done, or the
\* next thing run() does).
C3_MalformedClosesQuietly ==
    \A c \in Conns :
        DecodeFailed(c) =>
            /\ conn[c].out = ""
            /\ conn[c].pc = "closed" \/ ENABLED Close(c)

\* C4: after a read that does not decode on some connection the accept
\* loop is still running.
C4_MalformedLeavesLoopRunning ==
    (\E c \in Conns : DecodeFailed(c)) => Alive

\* the method of the request has no registered route at all
NoRouteForMethod(request) ==
    \/ request.method \notin DOMAIN router
    \/ router[request.method] = <<>>

Sends == {"send_response", "send_not_found", "send_method_not_allowed"}

\* C5: the response written for a request whose method has no registered
\* route is the canned 405, never a 404.
C5_NoRoutesMeans405 ==
    \A c \in Conns :
        (/\ conn[c].pc # "closed"
         /\ conn[c].last_io \in Sends
         /\ NoRouteForMethod(conn[c].request))
        => conn[c].out = to_encoded_response(method_not_allowed)

\* the whole path matches the whole pattern of the registered path
FullMatch(registered, path) ==
    MatchAt(SubPlaceholders(registered, 1) \o <<End>>, 1, path, 1).ok

\* C6: a route is taken as matching only if the whole path matches its
\* whole pattern, from start to end.
C6_MatchIsAnchored ==
    \A c \in Conns :
        conn[c].pc = "call" => FullMatch(RouteOf(c).path, conn[c].request.path)

\* C7: the handler called is that of the first route, in registration
\* order, whose matcher accepts the path, and it is called with the groups
\* in pattern order; with /echo/{x} registered before /, "/" goes to the
\* root route and "/echo/hi" to the echo route with <<"hi">>.
C7_FirstMatchInOrder ==
    \A c \in Conns :
        conn[c].pc \in {"call", "send"} =>
            LET routes == router[conn[c].request.method]
                path == conn[c].request.path
            IN /\ \A k \in 1..(conn[c].idx - 1) : ~re_match(routes[k].pattern, path).ok
               /\ re_match(routes[conn[c].idx].pattern, path).ok
               /\ conn[c].pc = "send" =>
                    /\ conn[c].args = OwnGroups(c)
                    /\ conn[c].response =
                         Call(RouteOf(c).callback, conn[c].request, OwnGroups(c)).response
                    /\ path = "/" => RouteOf(c).path = "/"
                    /\ path = "/echo/hi" =>
                         /\ RouteOf(c).callback = "echo_route"
                         /\ conn[c].args = <<"hi">>
                         /\ conn[c].response.body = "hi"

\* a path that a later registered route accepts too has been dispatched to
\* the route registered first
C7_Witness ==
    \E c \in Conns :
        /\ conn[c].pc = "send"
        /\ conn[c].idx = 1
        /\ \E k \in 2..Len(router["GET"]) :
             re_match(router["GET"][k].pattern, conn[c].request.path).ok

\* C9: a connection that has just been sent the canned 404 and one that has
\* just been sent the canned 405 are in the same state: both back at the
\* read, or both not.
C9_CannedResponsesContinueAlike ==
    \A c, d \in Conns :
        (/\ conn[c].last_io = "send_not_found"
         /\ conn[d].last_io = "send_method_not_allowed")
        => (conn[c].pc = "recv" <=> conn[d].pc = "recv")

\* C8: the parse of an encoded RequestContent succeeds and gives back the
\* method, path, version, headers and body it was built from.
C8_RequestRoundTrip ==
    decoded # Raised("") =>
        /\ decoded.ok
        /\ decoded.request.method = req.method
        /\ decoded.request.path = req.path
        /\ decoded.request.http_version = req.http_version
        /\ DictEq(decoded.request.headers, req.headers)
        /\ decoded.request.body = req.body

\* what follows the first blank line of an encoded message
BodyOf(message) ==
    LET k == Find(message, CRLF_DELIMITER \o CRLF_DELIMITER, 1) IN
    SubSeq(message, k + 4, Len(message))

\* the lines between the first line and the first blank line
HeaderLinesOf(message) ==
    LET k == Find(message, CRLF_DELIMITER \o CRLF_DELIMITER, 1) IN
    Tail(Split(SubSeq(message, 1, k - 1), CRLF_DELIMITER))

\* the values that the message carries for the header called name
ValuesOf(message, name) ==
    LET lines == HeaderLinesOf(message) IN
    { SplitMax(lines[i], ": ", 1)[2] :
        i \in {j \in 1..Len(lines) : SplitMax(lines[j], ": ", 1)[1] = name} }

\* C10: an encoded response carries exactly one Content-Length, the length
\* of the body it carries, which is the body the response has, whatever the
\* caller had set before.
C10_ContentLengthIsBodyLength ==
    encoded # "" =>
        /\ BodyOf(encoded) = resp.body
        /\ ValuesOf(encoded, "Content-Length") = {ToString(Len(BodyOf(encoded)))}

\* a response has been encoded whose Content-Length the caller had set
\* first, to something other than the length of its body
C10_Witness ==
    /\ encoded # ""
    /\ resp.headers[1].key = "Content-Length"
    /\ resp.body = "abc"

\* C11: a call of to_encoded_response on a response with no Content-Type
\* header emits Content-Type: text/plain; on a response whose caller has set
\* a Content-Type it emits the caller's value and no other.
C11_ContentTypeDefault ==
    [][calls' = calls + 1 =>
         ValuesOf(encoded', "Content-Type") =
             IF DictHas(resp.headers, "Content-Type")
             THEN {Join(DictGet(resp.headers, "Content-Type"), ", ")}
             ELSE {"text/plain"}]_vars

\* a response whose caller set Content-Type: text/html has been encoded
C11_Witness ==
    /\ calls = 1
    /\ ValuesOf(encoded, "Content-Type") = {"text/html"}

\* C12: a call of to_encoded_response that follows another one, with no
\* other call on the object in between, returns what the first returned.
C12_EncodeIdempotent ==
    [][(calls >= 1 /\ calls' = calls + 1) => encoded' = encoded]_vars

\* a response with a body and a caller's header has been encoded twice
C12_Witness ==
    /\ calls = 2
    /\ resp.body = "abc"
    /\ DictHas(resp.headers, "X-Served-By")

\* the path is /echo/ followed by one non-empty segment
IsEchoPath(path) ==
    /\ Len(path) > 6
    /\ SubSeq(path, 1, 6) = "/echo/"
    /\ Find(path, "/", 7) = 0

\* the first GET route is /echo/{name} bound to echo_route
EchoRegistered ==
    /\ Len(router["GET"]) >= 1
    /\ router["GET"][1].pattern = build_pattern("/echo/{str}")
    /\ router["GET"][1].callback = "echo_route"

\* C13: the response written for GET /echo/s, s one path segment, is the
\* status line HTTP/1.1 200 OK, Content-Type: text/plain, Content-Length:
\* len(s), a blank line and s, with nothing after s.
C13_EchoEndToEnd ==
    \A c \in Conns :
        (/\ EchoRegistered
         /\ conn[c].pc # "closed"
         /\ conn[c].last_io \in Sends
         /\ conn[c].request.method = "GET"
         /\ IsEchoPath(conn[c].request.path))
        => LET s == SubSeq(conn[c].request.path, 7, Len(conn[c].request.path)) IN
           conn[c].out = "HTTP/1.1 200 OK\r\nContent-Type: text/plain\r\nContent-Length: "
                         \o ToString(Len(s)) \o "\r\n\r\n" \o s

\* GET /echo/0123456789 has been answered
C13_Witness ==
    \E c \in Conns :
        /\ conn[c].last_io = "send_response"
        /\ conn[c].request.path = "/echo/0123456789"
        /\ conn[c].out =
             "HTTP/1.1 200 OK\r\nContent-Type: text/plain\r\nContent-Length: 10\r\n\r\n0123456789"

\* the text holds the blank line that ends the header block
HasSeparator(message) == Find(message, CRLF_DELIMITER \o CRLF_DELIMITER, 1) # 0

\* the text holds that blank line once
HasOneSeparator(message) ==
    LET k == Find(message, CRLF_DELIMITER \o CRLF_DELIMITER, 1) IN
    k # 0 /\ Find(message, CRLF_DELIMITER \o CRLF_DELIMITER, k + 4) = 0

\* the first line of the text
RequestLineOf(message) ==
    LET k == Find(message, CRLF_DELIMITER \o CRLF_DELIMITER, 1) IN
    Head(Split(SubSeq(message, 1, k - 1), CRLF_DELIMITER))

ThreeTokens(line) == Len(Split(line, " ")) = 3

HasColon(line) == Find(line, ": ", 1) # 0

\* name, one ": ", value
OneColon(line) ==
    LET k == Find(line, ": ", 1) IN k # 0 /\ Find(line, ": ", k + 2) = 0

\* the name before the first ": " of a header line and the raw value after it
NameOf(line) == SubSeq(line, 1, Find(line, ": ", 1) - 1)

RawValueOf(line) == SubSeq(line, Find(line, ": ", 1) + 2, Len(line))

\* the last header line of the text whose name is key up to letter case; 0
\* when there is none
LastLineNamed(message, key) ==
    LET lines == HeaderLinesOf(message)
        same == {i \in 1..Len(lines) : Lower(NameOf(lines[i])) = Lower(key)}
    IN IF same = {} THEN 0 ELSE CHOOSE i \in same : \A j \in same : j <= i

\* C14: a text with the blank line, a request line of three tokens and
\* header lines of the form name: value parses, and the body of the request
\* is all that follows the first blank line.
C14_SplitsOnceAtFirstSeparator ==
    (/\ decoded # Raised("")
     /\ HasSeparator(wire)
     /\ ThreeTokens(RequestLineOf(wire))
     /\ \A i \in 1..Len(HeaderLinesOf(wire)) : OneColon(HeaderLinesOf(wire)[i]))
    => /\ decoded.ok
       /\ decoded.request.body = BodyOf(wire)

\* C15: of the texts with one blank line and a request line of three tokens,
\* those parse whose header lines all hold ": ", and each line gives the name
\* before its first ": " and the raw value after it.
C15_HeaderLineRejectedIffNoSeparator ==
    (/\ decoded # Raised("")
     /\ HasOneSeparator(wire)
     /\ ThreeTokens(RequestLineOf(wire)))
    => LET lines == HeaderLinesOf(wire) IN
       /\ decoded.ok <=> \A i \in 1..Len(lines) : HasColon(lines[i])
       /\ decoded.ok =>
            \A i \in 1..Len(lines) :
                LastLineNamed(wire, NameOf(lines[i])) = i =>
                    /\ DictHas(decoded.request.headers, Lower(NameOf(lines[i])))
                    /\ DictGet(decoded.request.headers, Lower(NameOf(lines[i])))
                         = Split(RawValueOf(lines[i]), ", ")

\* the names a handler may look up
LookupKeys ==
    { "User-Agent", "user-agent", "USER-AGENT", "UsEr-aGeNT",
      "Accept", "accept", "ACCEPT", "Host", "host", "HOST", "Cookie", "x-missing" }

\* C16: on a parsed request, header(k) is the raw value of the header line
\* named k up to letter case, and for a name on no line header(k) is "" and
\* headers_pair(k) is ().
C16_HeaderLookupCaseInsensitiveTotal ==
    decoded.ok =>
        \A k \in LookupKeys :
            LET i == LastLineNamed(wire, k) IN
            IF i = 0
            THEN /\ header(decoded.request, k) = ""
                 /\ headers_pair(decoded.request, k) = <<>>
            ELSE header(decoded.request, k) = RawValueOf(HeaderLinesOf(wire)[i])

\* User-Agent: foo/1.0 has been parsed and is found under another spelling,
\* Cookie is not there
C16_Witness ==
    /\ decoded.ok
    /\ HeaderLinesOf(wire) = <<"User-Agent: foo/1.0">>
    /\ header(decoded.request, "UsEr-aGeNT") = "foo/1.0"
    /\ headers_pair(decoded.request, "Cookie") = <<>>

\* C18: when two header lines carry the same name up to letter case, the
\* parsed headers hold one entry for it, under the lower-cased name, with the
\* values of the last of those lines only.
C18_DuplicateHeaderLastWins ==
    decoded.ok =>
        LET lines == HeaderLinesOf(wire)
            hs == decoded.request.headers
        IN \A i, j \in 1..Len(lines) :
               (i < j /\ Lower(NameOf(lines[i])) = Lower(NameOf(lines[j]))
                      /\ LastLineNamed(wire, NameOf(lines[j])) = j)
               => /\ Cardinality({n \in 1..Len(hs) :
                                     Lower(hs[n].key) = Lower(NameOf(lines[j]))}) = 1
                  /\ DictHas(hs, Lower(NameOf(lines[j])))
                  /\ DictGet(hs, Lower(NameOf(lines[j])))
                       = Split(RawValueOf(lines[j]), ", ")

\* Accept: a, b followed by ACCEPT: c has been parsed
C18_Witness ==
    /\ decoded.ok
    /\ HeaderLinesOf(wire) = <<"Accept: a, b", "ACCEPT: c">>
    /\ decoded.request.headers = <<[key |-> "accept", value |-> <<"c">>]>>

\* C17: for a request whose method the router has no key for (none of GET,
\* POST, PUT, DELETE), the step after the parse sends the canned 405 and
\* leaves handle_connection without looking at any Route: the router, and so
\* every Route's args, is as before.
C17_MethodGateShortCircuits ==
    [][\A c \in Conns :
          (/\ conn[c].pc = "gate"
           /\ conn[c].request.method \notin {"GET", "POST", "PUT", "DELETE"}
           /\ conn'[c] # conn[c])
          => /\ router' = router
             /\ conn'[c].idx = 0
             /\ conn'[c].last_io = "send_method_not_allowed"
             /\ conn'[c].out =
                  "HTTP/1.1 405 Method Not Allowed\r\nContent-Type: text/plain\r\nContent-Length: 18\r\n\r\nMethod Not Allowed"
             /\ conn'[c].pc = "returned"]_vars

\* PATCH / has been answered with the 405 on a connection that had sent
\* GET /echo/hi before: the captures of that request are still in the Route
C17_Witness ==
    \E c \in Conns :
        /\ conn[c].last_io = "send_method_not_allowed"
        /\ conn[c].request.method = "PATCH"
        /\ conn[c].reads = 2
        /\ router["GET"][1].args = <<"hi">>

\* C19: a recv that returns b"" ends handle_connection: nothing is parsed or
\* sent and nothing is raised; run() is then at client.close() for this
\* connection, and after the close it is at accept() again.
C19_EmptyReadCloses ==
    /\ [][\A c \in Conns :
            (conn[c].pc = "recv" /\ conn'[c].pc = "returned")
            => /\ conn'[c] = [conn[c] EXCEPT !.pc = "returned", !.last_io = "recv_eof"]
               /\ server' = server
               /\ router' = router]_vars
    /\ [](\A c \in Conns :
            (conn[c].pc = "returned" /\ conn[c].last_io = "recv_eof")
            => /\ server.pc = "run"
               /\ server.client = c
               /\ server.exc = "")
    /\ [][\A c \in Conns :
            (conn[c].pc = "returned" /\ conn[c].last_io = "recv_eof"
                                     /\ conn'[c] # conn[c])
            => /\ conn'[c].pc = "closed"
               /\ server'.pc = "accept"
               /\ server'.exc = ""]_vars

\* a connection has been closed after an empty read and the next one is
\* being served
C19_Witness ==
    \E c, d \in Conns :
        /\ conn[c].pc = "closed"
        /\ conn[c].last_io = "recv_eof"
        /\ Open(d)

\* some GET/POST/PUT/DELETE route of the request's method matches its path
SomeRouteMatches(request) ==
    \E i \in 1..Len(router[request.method]) :
        match(router[request.method][i], request.path).ok

\* C20: a request that has been parsed gets one response before the next
\* read: while none is written the request is being dispatched, and what is
\* written is the canned 405 for a method without a key, the canned 404 when
\* no route of the method matches, a handler's response otherwise.
C20_OneResponsePerRequest ==
    \A c \in Conns :
        /\ (conn[c].last_io = "recv" /\ parse(conn[c].data).ok)
           => conn[c].pc \in {"parse", "gate", "scan", "call", "send"}
        /\ (conn[c].pc # "closed" /\ conn[c].last_io = "send_method_not_allowed")
           => /\ conn[c].request.method \notin DOMAIN router
              /\ conn[c].out = to_encoded_response(method_not_allowed)
        /\ (conn[c].pc # "closed" /\ conn[c].last_io = "send_not_found")
           => /\ conn[c].request.method \in DOMAIN router
              /\ ~SomeRouteMatches(conn[c].request)
              /\ conn[c].out =
                   "HTTP/1.1 404 Not Found\r\nContent-Type: text/plain\r\nContent-Length: 9\r\n\r\nNot Found"
        /\ (conn[c].pc # "closed" /\ conn[c].last_io = "send_response")
           => /\ conn[c].request.method \in DOMAIN router
              /\ SomeRouteMatches(conn[c].request)

====
